---- MODULE Spec2Model ----
(***************************************************************************)
(* The vector store of the retrieval engine (src/API/stores/rag/           *)
(* VectorStore.py) as a state machine: one VectorStore instance with its   *)
(* three backends (FAISS, Chroma, in-memory), the two files it persists,   *)
(* and the operations add_documents, search, delete_document,              *)
(* delete_documents, compact_index, reset_collection and the construction  *)
(* of a new instance on the same persist directory.                        *)
(*                                                                         *)
(* Conventions.  Python positions are 0-based, sequences here are 1-based: *)
(* a position p of the code is p + 1 here.  A real vector is the record    *)
(* [v, s2] standing for v / sqrt(s2) with v a tuple of integers, so that   *)
(* normalisation, dot products and the order of scores are computed        *)
(* exactly (float32 rounding is not modelled).  A score is the record      *)
(* [num, den2, l2] standing for the cosine c = num / sqrt(den2); l2 marks  *)
(* a Chroma score, 1 - squared L2 distance = 2c - 1, which orders as c     *)
(* does.  None / an absent metadata key is "" for strings, NoId for ids    *)
(* and NoDim for the dimension.  A chunk's embedding is a function of its  *)
(* text (Embed), as the embedding service computes it.                     *)
(***************************************************************************)
EXTENDS Integers, Sequences, FiniteSets, TLC

\* ------------------------------------------------------------------ bounds
MaxDocs == 3
MaxBatch == 2
MaxUuid == 3
MaxTopK == 2
MaxRankUuid == 4

\* ------------------------------------------------------------ input sets
NoId == 0
NoDim == 0
Backends == {"faiss", "chroma", "in_memory"}
Users == {"A", "B"}
NoFilter == << >>

\* the embedding provider is a function of the text (embed_documents embeds
\* each chunk's content): four texts, three of dimension 3 and one of 2
Embed(content) ==
  CASE content = "x" -> <<1, 0, 0>>
    [] content = "y" -> <<0, 1, 0>>
    [] content = "z" -> <<0, 0, 1>>
    [] content = "w" -> <<0, 2>>

\* the chunks a caller may hand to add_documents
ChunksOf(users, hashes, ids, contents) ==
  {[content |-> c, embedding |-> Embed(c), metadata |-> md] :
     c \in contents,
     md \in [username : users, doc_hash : hashes, file_name : {"f"}, id : ids]}

\* a call adds the chunks of one document, as index_document builds them:
\* they share username, doc_hash and file_name
SameDocument(batch) ==
  \A i, j \in 1..Len(batch) :
    /\ batch[i].metadata.username = batch[j].metadata.username
    /\ batch[i].metadata.doc_hash = batch[j].metadata.doc_hash
    /\ batch[i].metadata.file_name = batch[j].metadata.file_name

BatchesOf(chunks) ==
  {b \in UNION {[1..n -> chunks] : n \in 1..MaxBatch} : SameDocument(b)}

\* Spec: two tenants, documents with and without a doc_hash, one dimension
Batches == BatchesOf(ChunksOf(Users, {"", "h1"}, {NoId}, {"x"}))
Queries == {<<9, 1, 0>>}
Filters == {NoFilter, [username |-> "A"], [username |-> "A", doc_hash |-> "h1"]}
Ids == 1..MaxUuid

\* SpecMixed: embeddings of two lengths
MixedBatches == BatchesOf(ChunksOf(Users, {""}, {NoId}, {"x", "w"}))
MixedQueries == {<<2, 0, 0>>, <<0, 2>>}
MixedFilters == {NoFilter, [username |-> "A"]}

\* SpecIds: ids supplied by the caller in metadata['id'] beside generated ones
SuppliedBatches == BatchesOf(ChunksOf(Users, {""}, {NoId, 100}, {"x"}))
SuppliedIds == (1..MaxUuid) \cup {100}

\* SpecRank: the three unit vectors of dimension 3, one tenant, on the
\* backends that resolve a hit by its position (FAISS, in-memory)
RankBatches == BatchesOf(ChunksOf({"A"}, {""}, {NoId}, {"x", "y", "z"}))
RankQueries == {<<1, 0, 0>>, <<9, 1, 0>>}
RankFilters == {NoFilter}

\* ------------------------------------------------------------- VectorMath
RECURSIVE Gcd(_, _)
Gcd(a, b) == IF b = 0 THEN a ELSE Gcd(b, a % b)

Abs(x) == IF x < 0 THEN -x ELSE x

RECURSIVE DotFrom(_, _, _)
DotFrom(a, b, i) ==
  IF i > Len(a) THEN 0 ELSE a[i] * b[i] + DotFrom(a, b, i + 1)

IntDot(a, b) == DotFrom(a, b, 1)

RECURSIVE GcdFrom(_, _)
GcdFrom(a, i) == IF i > Len(a) THEN 0 ELSE Gcd(Abs(a[i]), GcdFrom(a, i + 1))

\* np.array(doc['embedding'], dtype=np.float32): the raw vector, scale 1
RawVec(e) == [v |-> e, s2 |-> 1]

IsZeroVec(x) == IntDot(x.v, x.v) = 0

\* x / np.linalg.norm(x) when the norm is positive, x unchanged otherwise;
\* the unit vector along v is kept in lowest terms
Normalize(x) ==
  IF IsZeroVec(x) THEN x
  ELSE LET g == GcdFrom(x.v, 1)
           p == [i \in 1..Len(x.v) |-> x.v[i] \div g]
       IN [v |-> p, s2 |-> IntDot(p, p)]

\* the dot product x . y = (x.v . y.v) / sqrt(x.s2 * y.s2)
Similarity(x, y) ==
  [num |-> IntDot(x.v, y.v), den2 |-> x.s2 * y.s2, l2 |-> FALSE]

\* a >= b for scores num / sqrt(den2)
ScoreGeq(a, b) ==
  IF a.num >= 0 /\ b.num >= 0
    THEN a.num * a.num * b.den2 >= b.num * b.num * a.den2
  ELSE IF a.num >= 0 THEN TRUE
  ELSE IF b.num >= 0 THEN FALSE
  ELSE a.num * a.num * b.den2 <= b.num * b.num * a.den2

ScoreEq(a, b) == ScoreGeq(a, b) /\ ScoreGeq(b, a)

\* the score is exactly 1 (the cosine is 1, under either scaling)
IsOne(a) == a.num > 0 /\ a.num * a.num = a.den2

\* 1 - squared L2 distance of two unit vectors = 2 (x . y) - 1: the record
\* keeps the cosine and marks the affine rescaling
ChromaScore(x, y) == [Similarity(x, y) EXCEPT !.l2 = TRUE]

Dim(x) == Len(x.v)

\* ------------------------------------------------------- the store's state
\* self.index = None
NoIndex == [built |-> FALSE, d |-> NoDim, vecs |-> << >>]

\* neither file exists
NoFiles ==
  [index |-> NoIndex,
   data |-> [exists |-> FALSE, documents |-> << >>, id_to_idx |-> << >>,
             dimension |-> NoDim, embeddings |-> << >>]]

\* the process-wide Chroma collection: not yet created
NoChroma == [alive |-> TRUE, dim |-> NoDim, items |-> << >>]

\* id_to_idx is a dict: a sequence of [id, idx] in insertion order
HasKey(m, k) == \E i \in 1..Len(m) : m[i].id = k

Lookup(m, k) == (CHOOSE i \in 1..Len(m) : m[i].id = k)

Get(m, k) == m[Lookup(m, k)].idx

\* m[k] = x: an existing key keeps its place, a new key goes last
Put(m, k, x) ==
  IF HasKey(m, k) THEN [m EXCEPT ![Lookup(m, k)].idx = x]
  ELSE Append(m, [id |-> k, idx |-> x])

\* del m[k]
Del(m, k) == SelectSeq(m, LAMBDA e : e.id # k)

\* all(md.get(k) == v for k, v in filter.items())
Matches(md, f) == \A k \in DOMAIN f : md[k] = f[k]

IsDeleted(doc) == doc.metadata.deleted

Live(docs) == SelectSeq(docs, LAMBDA d : ~IsDeleted(d))

\* a new VectorStore before _load: __init__'s defaults
EmptyStore(b) ==
  [backend |-> b, index |-> NoIndex, documents |-> << >>, id_to_idx |-> << >>,
   dimension |-> NoDim, hasEmb |-> FALSE, embeddings |-> << >>,
   chroma |-> NoChroma, files |-> NoFiles]

\* getattr(self, 'embeddings', [])
GetEmbeddings(s) == IF s.hasEmb THEN s.embeddings ELSE << >>

Snapshot(s) ==
  [exists |-> TRUE, documents |-> s.documents, id_to_idx |-> s.id_to_idx,
   dimension |-> s.dimension, embeddings |-> GetEmbeddings(s)]

\* _save: FAISS writes both files when it has an index, in-memory writes the
\* data file, Chroma writes nothing
Save(s) ==
  IF s.backend = "faiss" /\ s.index.built
    THEN [s EXCEPT !.files = [index |-> s.index, data |-> Snapshot(s)]]
  ELSE IF s.backend = "in_memory"
    THEN [s EXCEPT !.files.data = Snapshot(s)]
  ELSE s

\* _initialize_index
InitializeIndex(s, dim) ==
  [s EXCEPT !.dimension = dim,
            !.index = IF s.backend = "faiss"
                        THEN [built |-> TRUE, d |-> dim, vecs |-> << >>]
                        ELSE NoIndex]

\* reset_collection: self.embeddings is not among the fields it clears
ResetCollection(s) ==
  [s EXCEPT !.index = NoIndex, !.documents = << >>, !.id_to_idx = << >>,
            !.dimension = NoDim, !.files = NoFiles,
            !.chroma = IF s.backend = "chroma"
                         THEN [alive |-> FALSE, dim |-> NoDim, items |-> << >>]
                         ELSE s.chroma]

\* {doc['id']: idx for idx, doc in enumerate(docs)}
RECURSIVE IndexFrom(_, _, _)
IndexFrom(docs, i, m) ==
  IF i > Len(docs) THEN m ELSE IndexFrom(docs, i + 1, Put(m, docs[i].id, i))

\* the comprehension counting positions from one past the start
RebuildIdToIdxShifted(docs) ==
  [i \in 1..Len(docs) |-> [id |-> docs[i].id, idx |-> i + 1]]

RebuildIdToIdx(docs) == IndexFrom(docs, 1, << >>)

\* the embeddings compact_index keeps: those at the positions of the live
\* documents, where self.embeddings has a non-empty entry
RECURSIVE ActiveEmbeddingsFrom(_, _)
ActiveEmbeddingsFrom(s, i) ==
  IF i > Len(s.documents) THEN << >>
  ELSE LET rest == ActiveEmbeddingsFrom(s, i + 1)
       IN IF ~IsDeleted(s.documents[i]) /\ s.hasEmb /\ i <= Len(s.embeddings)
               /\ Dim(s.embeddings[i]) > 0
            THEN <<s.embeddings[i]>> \o rest
            ELSE rest

ActiveEmbeddings(s) == ActiveEmbeddingsFrom(s, 1)

NormalizeAll(es) == [i \in 1..Len(es) |-> Normalize(es[i])]

\* np.vstack / np.array of vectors of different lengths raises
Ragged(es) == \E i, j \in 1..Len(es) : Dim(es[i]) # Dim(es[j])

\* a compaction that keeps a live document only when it finds an embedding
\* at the document's position
ActiveDocsEmbedded(s) ==
  LET keep == {i \in 1..Len(s.documents) :
                 /\ ~IsDeleted(s.documents[i])
                 /\ s.hasEmb /\ i <= Len(s.embeddings)
                 /\ Len(s.embeddings[i].v) > 0}
      F[i \in 0..Len(s.documents)] ==
        IF i = 0 THEN << >>
        ELSE IF i \in keep THEN Append(F[i - 1], s.documents[i]) ELSE F[i - 1]
  IN F[Len(s.documents)]

\* compact_index, the loop's active_docs: every entry not marked deleted,
\* whether or not an embedding is found for it
ActiveDocs(s) == Live(s.documents)

\* compact_index: [s, raised]
CompactIndex(s) ==
  LET active_docs == ActiveDocs(s)
      active_embeddings == ActiveEmbeddings(s)
      rebuilt == [s EXCEPT !.documents = active_docs,
                           !.id_to_idx = RebuildIdToIdx(active_docs),
                           !.hasEmb = TRUE,
                           !.embeddings = active_embeddings]
  IN IF Len(active_docs) = 0
       THEN [s |-> ResetCollection(s), raised |-> FALSE, ret |-> FALSE]
     ELSE IF s.backend = "faiss"
       THEN IF Len(active_embeddings) = 0
              THEN [s |-> rebuilt, raised |-> TRUE, ret |-> FALSE]
            ELSE LET fresh == InitializeIndex(rebuilt, Dim(active_embeddings[1]))
                 IN IF Ragged(active_embeddings)
                      THEN [s |-> fresh, raised |-> TRUE, ret |-> FALSE]
                    ELSE [s |-> Save([fresh EXCEPT !.index.vecs =
                                        NormalizeAll(active_embeddings)]),
                          raised |-> FALSE, ret |-> FALSE]
     ELSE IF s.backend = "in_memory"
       THEN [s |-> Save([rebuilt EXCEPT !.embeddings =
                           NormalizeAll(active_embeddings)]),
             raised |-> FALSE, ret |-> FALSE]
     ELSE [s |-> Save(rebuilt), raised |-> FALSE, ret |-> FALSE]

\* get_document: the live document under doc_id, or NoDoc for None
NoMeta ==
  [username |-> "", doc_hash |-> "", file_name |-> "", id |-> NoId,
   deleted |-> FALSE]

NoDoc == [id |-> NoId, content |-> "", metadata |-> NoMeta]

GetDocument(s, doc_id) ==
  IF HasKey(s.id_to_idx, doc_id)
       /\ ~IsDeleted(s.documents[Get(s.id_to_idx, doc_id)])
    THEN s.documents[Get(s.id_to_idx, doc_id)]
    ELSE NoDoc

\* count_documents
CountDocuments(s) == Len(Live(s.documents))

\* a hash lookup that forgets the tenant
DocumentExistsByAnyTenant(s, doc_hash, username) ==
  \E i \in 1..Len(s.documents) : s.documents[i].metadata.doc_hash = doc_hash

\* a hash lookup that passes over tombstones
DocumentExistsLiveOnly(s, doc_hash, username) ==
  \E i \in 1..Len(s.documents) :
    /\ ~IsDeleted(s.documents[i])
    /\ s.documents[i].metadata.doc_hash = doc_hash
    /\ (username # "" => s.documents[i].metadata.username = username)

\* document_exists_by_hash: username None or '' matches any tenant
DocumentExistsByHash(s, doc_hash, username) ==
  \E i \in 1..Len(s.documents) :
    /\ s.documents[i].metadata.doc_hash = doc_hash
    /\ (username # "" => s.documents[i].metadata.username = username)

\* collection.delete(ids=[doc_id]); a failure is swallowed
ChromaDelete(s, doc_id) ==
  IF s.backend = "chroma" /\ s.chroma.alive
    THEN [s EXCEPT !.chroma.items = SelectSeq(@, LAMBDA it : it.id # doc_id)]
    ELSE s

\* delete_document up to its _save: the entry at idx becomes a tombstone
\* (content cleared, metadata kept and marked deleted) and the id is unmapped
Tombstoned(s, doc_id) ==
  LET idx == Get(s.id_to_idx, doc_id)
      meta == [s.documents[idx].metadata EXCEPT !.deleted = TRUE]
      tomb == [id |-> doc_id, content |-> "", metadata |-> meta]
      marked == [s EXCEPT !.documents[idx] = tomb,
                          !.id_to_idx = Del(@, doc_id)]
  IN Save(ChromaDelete(marked, doc_id))

\* delete_document: tombstone, unmap, save, then compact_index, whose
\* exception is swallowed: [s, ret]
DeleteDocument(s, doc_id) ==
  IF ~HasKey(s.id_to_idx, doc_id) THEN [s |-> s, raised |-> FALSE, ret |-> FALSE]
  ELSE IF Get(s.id_to_idx, doc_id) > Len(s.documents)
    THEN [s |-> s, raised |-> FALSE, ret |-> FALSE]
  ELSE [s |-> CompactIndex(Tombstoned(s, doc_id)).s, raised |-> FALSE, ret |-> TRUE]

\* delete_documents: the loop runs over the id_to_idx items as they were on
\* entry, each position read in the documents as they are now
RECURSIVE DeleteLoop(_, _, _, _, _)
DeleteLoop(cur, items, i, f, count) ==
  IF i > Len(items) THEN [s |-> cur, count |-> count]
  ELSE LET idx == items[i].idx
       IN IF idx < 1 \/ idx > Len(cur.documents)
            THEN DeleteLoop(cur, items, i + 1, f, count)
          ELSE IF Matches(cur.documents[idx].metadata, f)
            THEN DeleteLoop(DeleteDocument(cur, items[i].id).s, items, i + 1,
                            f, count + 1)
          ELSE DeleteLoop(cur, items, i + 1, f, count)

\* delete_documents: [s, ret]
DeleteDocuments(s, f) ==
  LET looped == IF DOMAIN f # {}
                  THEN DeleteLoop(s, s.id_to_idx, 1, f, 0)
                  ELSE [s |-> s, count |-> 0]
  IN [s |-> CompactIndex(looped.s).s, raised |-> FALSE, ret |-> looped.count]

\* _clean_metadata; a stored chunk carries no 'deleted' key until tombstoned
CleanMetadata(md) ==
  [username |-> md.username, doc_hash |-> md.doc_hash,
   file_name |-> md.file_name, id |-> md.id, deleted |-> FALSE]

\* add_documents, first loop: chunks without an embedding and duplicates of
\* what self.documents already holds are skipped; acc = [ids, embs, docs, uuid].
\* uuid.uuid4() is drawn for every chunk kept, also when metadata['id'] is
\* used instead
RECURSIVE Collect(_, _, _, _)
Collect(s, batch, i, acc) ==
  IF i > Len(batch) THEN acc
  ELSE LET doc == batch[i]
           md == doc.metadata
       IN IF Len(doc.embedding) = 0 THEN Collect(s, batch, i + 1, acc)
          ELSE IF md.doc_hash # "" /\ DocumentExistsByHash(s, md.doc_hash, md.username)
            THEN Collect(s, batch, i + 1, acc)
          ELSE LET doc_id == IF md.id # NoId THEN md.id ELSE acc.uuid
                   stored == [id |-> doc_id, content |-> doc.content,
                              metadata |-> CleanMetadata(md)]
               IN Collect(s, batch, i + 1,
                    [ids |-> Append(acc.ids, doc_id),
                     embs |-> Append(acc.embs, Normalize(RawVec(doc.embedding))),
                     docs |-> Append(acc.docs, stored),
                     uuid |-> acc.uuid + 1])

Collected(s, batch, uuid) ==
  Collect(s, batch, 1, [ids |-> << >>, embs |-> << >>, docs |-> << >>, uuid |-> uuid])

\* the uuids a call draws
UuidsDrawn(s, batch, uuid) == Collected(s, batch, uuid).uuid - uuid

\* collection.add(ids, metadatas, documents, embeddings): Chroma refuses a
\* deleted collection, a dimension other than the collection's and an id
\* repeated in the call, and ignores ids it already holds; the code swallows
\* the refusal
ChromaAdd(s, docs, embs) ==
  LET c == s.chroma
      dim == Dim(embs[1])
      refused == \/ ~c.alive
                 \/ c.dim # NoDim /\ c.dim # dim
                 \/ \E i, j \in 1..Len(docs) : i # j /\ docs[i].id = docs[j].id
      fresh == SelectSeq([i \in 1..Len(docs) |->
                            [id |-> docs[i].id, metadata |-> docs[i].metadata,
                             content |-> docs[i].content, emb |-> embs[i]]],
                         LAMBDA it : \A j \in 1..Len(c.items) : c.items[j].id # it.id)
  IN IF refused THEN s
     ELSE [s EXCEPT !.chroma = [alive |-> TRUE, dim |-> dim, items |-> c.items \o fresh]]

\* add_documents, second loop: append each document, map its id, and pad
\* self.embeddings when it is shorter than self.documents
RECURSIVE StoreDocs(_, _, _, _)
StoreDocs(s, docs, normalized, i) ==
  IF i > Len(docs) THEN s
  ELSE LET appended == [s EXCEPT !.documents = Append(@, docs[i]),
                                 !.id_to_idx = Put(@, docs[i].id, Len(s.documents) + 1)]
           padded == IF appended.hasEmb
                          /\ Len(appended.embeddings) < Len(appended.documents)
                       THEN [appended EXCEPT !.embeddings = Append(@, normalized[i])]
                       ELSE appended
       IN StoreDocs(padded, docs, normalized, i + 1)

\* add_documents: [s, raised, ret]
AddDocuments(s, batch, uuid) ==
  LET c == Collected(s, batch, uuid)
      normalized == NormalizeAll(c.embs)
  IN IF Len(c.ids) = 0 THEN [s |-> s, raised |-> FALSE, ret |-> << >>]
     ELSE IF Ragged(c.embs) THEN [s |-> s, raised |-> TRUE, ret |-> << >>]
     ELSE
       LET dim == Dim(c.embs[1])
           s1 == IF s.backend = "faiss" /\ ~s.index.built
                   THEN InitializeIndex(s, dim) ELSE s
           s2 == IF s1.backend = "in_memory" /\ s1.dimension = NoDim
                   THEN [s1 EXCEPT !.dimension = dim, !.hasEmb = TRUE,
                                   !.embeddings = << >>]
                   ELSE s1
           mismatch == dim # s2.dimension
           refused == mismatch /\ s2.index.built /\ Len(s2.documents) # 0
           s3 == IF mismatch /\ ~refused THEN InitializeIndex(s2, dim) ELSE s2
       IN IF refused THEN [s |-> s2, raised |-> TRUE, ret |-> << >>]
          ELSE IF s3.backend = "faiss" /\ s3.index.d # dim
            THEN [s |-> s3, raised |-> TRUE, ret |-> << >>]
          ELSE
            LET s4 == IF s3.backend = "faiss"
                        THEN [s3 EXCEPT !.index.vecs = @ \o c.embs,
                                        !.hasEmb = TRUE,
                                        !.embeddings = GetEmbeddings(s3) \o normalized]
                      ELSE IF s3.backend = "chroma"
                        THEN ChromaAdd(s3, c.docs, c.embs)
                      ELSE [s3 EXCEPT !.hasEmb = TRUE,
                                      !.embeddings = GetEmbeddings(s3) \o normalized]
            IN [s |-> Save(StoreDocs(s4, c.docs, normalized, 1)),
                raised |-> FALSE, ret |-> c.ids]

\* ------------------------------------------------------------------ search
Min(a, b) == IF a < b THEN a ELSE b

\* the orders a top-m selection by descending score may return: the m best
\* positions, best first; which of several equal scores comes first (or is
\* cut off) is left open by np.argsort, FAISS and Chroma alike
TopOrders(scores, m) ==
  {p \in [1..m -> 1..Len(scores)] :
     /\ \A i, j \in 1..m : i < j => p[i] # p[j] /\ ScoreGeq(scores[p[i]], scores[p[j]])
     /\ \A i \in 1..m : \A j \in 1..Len(scores) :
          (\A h \in 1..m : p[h] # j) => ScoreGeq(scores[p[i]], scores[j])}

\* search, "Format results": hits beyond the documents, tombstones and
\* documents failing the filter are dropped
RECURSIVE FormatResults(_, _, _, _, _)
FormatResults(s, scores, order, f, i) ==
  IF i > Len(order) THEN << >>
  ELSE LET idx == order[i]
           rest == FormatResults(s, scores, order, f, i + 1)
       IN IF idx > Len(s.documents) THEN rest
          ELSE IF IsDeleted(s.documents[idx]) THEN rest
          ELSE IF DOMAIN f # {} /\ ~Matches(s.documents[idx].metadata, f) THEN rest
          ELSE <<[id |-> s.documents[idx].id,
                  content |-> s.documents[idx].content,
                  metadata |-> s.documents[idx].metadata,
                  score |-> scores[idx]]>> \o rest

Raised == [raised |-> TRUE, results |-> << >>]

Returned(rs) == [raised |-> FALSE, results |-> rs]

\* the Chroma branch returns what the collection answers, without an 'id'
\* key (NoId here) and without looking at filter_metadata; a failed query
\* is an empty result
ChromaSearch(s, qn, top_k) ==
  LET c == s.chroma
      scores == [i \in 1..Len(c.items) |-> ChromaScore(c.items[i].emb, qn)]
  IN IF ~c.alive \/ (c.dim # NoDim /\ c.dim # Dim(qn)) THEN {Returned(<< >>)}
     ELSE {Returned([i \in 1..Len(p) |->
                       [id |-> NoId, content |-> c.items[p[i]].content,
                        metadata |-> c.items[p[i]].metadata,
                        score |-> scores[p[i]]]]) :
             p \in TopOrders(scores, Min(top_k, Len(c.items)))}

\* search: the set of outcomes [raised, results] the call may have
Search(s, query_embedding, top_k, f) ==
  LET qn == Normalize(RawVec(query_embedding))
  IN IF s.backend = "faiss"
       THEN IF ~s.index.built \/ Len(s.index.vecs) = 0 THEN {Returned(<< >>)}
            ELSE IF Dim(qn) # s.index.d THEN {Raised}
            ELSE LET scores == [i \in 1..Len(s.index.vecs) |->
                                  Similarity(s.index.vecs[i], qn)]
                 IN {Returned(FormatResults(s, scores, p, f, 1)) :
                       p \in TopOrders(scores, Min(top_k, Len(s.index.vecs)))}
     ELSE IF s.backend = "chroma" THEN ChromaSearch(s, qn, top_k)
     ELSE IF ~s.hasEmb \/ Len(s.embeddings) = 0 THEN {Returned(<< >>)}
     ELSE IF Ragged(s.embeddings) \/ Dim(s.embeddings[1]) # Dim(qn) THEN {Raised}
     ELSE LET scores == [i \in 1..Len(s.embeddings) |->
                           Similarity(s.embeddings[i], qn)]
          IN {Returned(FormatResults(s, scores, p, f, 1)) :
                p \in TopOrders(scores, Min(top_k, Len(s.embeddings)))}

\* ------------------------------------------------------- a new instance
\* VectorStore.__init__ and _load on the same persist directory; the Chroma
\* client is the process's: get_collection, or create_collection once the
\* collection was deleted
Load(s) ==
  LET e == EmptyStore(s.backend)
      d == s.files.data
      loaded == [e EXCEPT !.documents = d.documents, !.id_to_idx = d.id_to_idx,
                          !.dimension = d.dimension, !.hasEmb = TRUE,
                          !.embeddings = d.embeddings, !.files = s.files]
  IN IF s.backend = "faiss"
       THEN IF s.files.index.built /\ d.exists
              THEN [loaded EXCEPT !.index = s.files.index]
              ELSE [e EXCEPT !.files = s.files]
     ELSE IF s.backend = "chroma"
       THEN [e EXCEPT !.chroma = IF s.chroma.alive THEN s.chroma ELSE NoChroma]
     ELSE IF d.exists THEN loaded
     ELSE [e EXCEPT !.hasEmb = TRUE, !.files = s.files]

\* ---------------------------------------------------------------- the state
VARIABLES backend, index, documents, id_to_idx, dimension, hasEmb, embeddings,
          chroma, files, nextUuid, op, ret, pc, peer, splitter

vars == <<backend, index, documents, id_to_idx, dimension, hasEmb, embeddings,
          chroma, files, nextUuid, op, ret, pc, peer, splitter>>

\* the requests in flight: "r1" works on the instance held in the variables
\* above, "r2" on its own instance, peer; both on the same persist directory
Requests == {"r1", "r2"}

\* r2 before its controller exists
NoPeer == EmptyStore("in_memory")

\* no split_text call under way
NoSplitter ==
  [text |-> << >>, chunk_size |-> 0, chunk_overlap |-> 0, start |-> 0,
   chunk |-> << >>, returned |-> TRUE]

\* the instance and its persist directory as one record
Store ==
  [backend |-> backend, index |-> index, documents |-> documents,
   id_to_idx |-> id_to_idx, dimension |-> dimension, hasEmb |-> hasEmb,
   embeddings |-> embeddings, chroma |-> chroma, files |-> files]

StoreNext ==
  [backend |-> backend', index |-> index', documents |-> documents',
   id_to_idx |-> id_to_idx', dimension |-> dimension', hasEmb |-> hasEmb',
   embeddings |-> embeddings', chroma |-> chroma', files |-> files']

Becomes(s) ==
  /\ backend' = s.backend /\ index' = s.index /\ documents' = s.documents
  /\ id_to_idx' = s.id_to_idx /\ dimension' = s.dimension
  /\ hasEmb' = s.hasEmb /\ embeddings' = s.embeddings
  /\ chroma' = s.chroma /\ files' = s.files

\* a VectorStore constructed on an empty persist directory
InitOn(backends) ==
  /\ \E b \in backends :
       LET s == Load(EmptyStore(b))
       IN /\ backend = s.backend /\ index = s.index /\ documents = s.documents
          /\ id_to_idx = s.id_to_idx /\ dimension = s.dimension
          /\ hasEmb = s.hasEmb /\ embeddings = s.embeddings
          /\ chroma = s.chroma /\ files = s.files
  /\ nextUuid = 1
  /\ op = "init"
  /\ ret = [raised |-> FALSE, val |-> FALSE]
  /\ pc = [r \in Requests |-> IF r = "r1" THEN "open" ELSE "none"]
  /\ peer = NoPeer
  /\ splitter = NoSplitter

\* the outcome r = [s, raised, ret] of a call becomes the next state
Outcome(r, name) ==
  /\ op' = name
  /\ Becomes(r.s)
  /\ ret' = [raised |-> r.raised, val |-> r.ret]
  /\ UNCHANGED <<pc, peer, splitter>>

AddDocumentsCall(batch, cap) ==
  /\ Len(documents) + Len(batch) <= MaxDocs
  /\ nextUuid + UuidsDrawn(Store, batch, nextUuid) <= cap + 1
  /\ Outcome(AddDocuments(Store, batch, nextUuid), "add_documents")
  /\ nextUuid' = nextUuid + UuidsDrawn(Store, batch, nextUuid)

SearchCall(q, k, f) ==
  /\ op' = "search"
  /\ \E out \in Search(Store, q, k, f) :
       ret' = [raised |-> out.raised, val |-> out.results]
  /\ UNCHANGED <<backend, index, documents, id_to_idx, dimension, hasEmb,
                 embeddings, chroma, files, nextUuid, pc, peer, splitter>>

DeleteDocumentCall(doc_id) ==
  /\ Outcome(DeleteDocument(Store, doc_id), "delete_document")
  /\ UNCHANGED nextUuid

DeleteDocumentsCall(f) ==
  /\ Outcome(DeleteDocuments(Store, f), "delete_documents")
  /\ UNCHANGED nextUuid

CompactIndexCall ==
  /\ Outcome(CompactIndex(Store), "compact_index")
  /\ UNCHANGED nextUuid

ResetCollectionCall ==
  /\ Outcome([s |-> ResetCollection(Store), raised |-> FALSE, ret |-> FALSE],
             "reset_collection")
  /\ UNCHANGED nextUuid

\* the next request's controller constructs its own VectorStore
NewInstance ==
  /\ Outcome([s |-> Load(Store), raised |-> FALSE, ret |-> FALSE], "init")
  /\ UNCHANGED nextUuid

Init == InitOn(Backends)

Next ==
  \/ \E batch \in Batches : AddDocumentsCall(batch, MaxUuid)
  \/ \E q \in Queries, k \in 1..MaxTopK, f \in Filters : SearchCall(q, k, f)
  \/ \E doc_id \in Ids : DeleteDocumentCall(doc_id)
  \/ \E f \in Filters : DeleteDocumentsCall(f)
  \/ CompactIndexCall
  \/ ResetCollectionCall
  \/ NewInstance

Spec == Init /\ [][Next]_vars

NextMixed ==
  \/ \E batch \in MixedBatches : AddDocumentsCall(batch, MaxUuid)
  \/ \E q \in MixedQueries, k \in 1..MaxTopK, f \in MixedFilters : SearchCall(q, k, f)
  \/ \E doc_id \in Ids : DeleteDocumentCall(doc_id)
  \/ \E f \in MixedFilters : DeleteDocumentsCall(f)
  \/ CompactIndexCall
  \/ ResetCollectionCall
  \/ NewInstance

SpecMixed == Init /\ [][NextMixed]_vars

NextIds ==
  \/ \E batch \in SuppliedBatches : AddDocumentsCall(batch, MaxUuid)
  \/ \E q \in MixedQueries, k \in 1..MaxTopK, f \in MixedFilters : SearchCall(q, k, f)
  \/ \E doc_id \in SuppliedIds : DeleteDocumentCall(doc_id)
  \/ \E f \in MixedFilters : DeleteDocumentsCall(f)
  \/ CompactIndexCall
  \/ ResetCollectionCall
  \/ NewInstance

SpecIds == Init /\ [][NextIds]_vars

NextRank ==
  \/ \E batch \in RankBatches : AddDocumentsCall(batch, MaxRankUuid)
  \/ \E q \in RankQueries, k \in 1..MaxTopK, f \in RankFilters : SearchCall(q, k, f)
  \/ \E doc_id \in 1..MaxRankUuid : DeleteDocumentCall(doc_id)
  \/ \E f \in RankFilters : DeleteDocumentsCall(f)
  \/ CompactIndexCall
  \/ ResetCollectionCall
  \/ NewInstance

InitRank == InitOn({"faiss", "in_memory"})

SpecRank == InitRank /\ [][NextRank]_vars
\* ============================================================ properties
\* the live documents of a table that match a filter
LiveMatching(docs, f) ==
  SelectSeq(docs, LAMBDA d : ~IsDeleted(d) /\ Matches(d.metadata, f))

\* C1: a search whose filter names a tenant returns only documents of that
\* tenant, on every backend (FAISS, Chroma, in-memory)
C1_TenantIsolation ==
  [][\A q \in Queries, k \in 1..MaxTopK, f \in Filters :
       (SearchCall(q, k, f) /\ "username" \in DOMAIN f /\ ~ret'.raised)
         => \A i \in 1..Len(ret'.val) :
              ret'.val[i].metadata.username = f.username]_vars

\* C2: delete_documents(filter) leaves every live document that does not
\* match the filter in place: still found under its id, content and metadata
\* as before
C2_DeleteFrame ==
  [][\A f \in Filters :
       DeleteDocumentsCall(f)
         => \A i \in 1..Len(documents) :
              (~IsDeleted(documents[i]) /\ ~Matches(documents[i].metadata, f))
                => GetDocument(StoreNext, documents[i].id) = documents[i]]_vars

\* C3: delete_documents with a non-empty filter deletes every live document
\* that matches the filter and returns how many they were
C3_DeleteComplete ==
  [][\A f \in Filters :
       (DeleteDocumentsCall(f) /\ DOMAIN f # {})
         => /\ Len(LiveMatching(documents', f)) = 0
            /\ ret'.val = Len(LiveMatching(documents, f))]_vars

\* C4: once delete_document(id) has returned True, get_document(id) is None,
\* no search result carries the id, and count_documents() is one less than
\* before the call
C4_TombstoneExclusion ==
  [][\A doc_id \in SuppliedIds :
       (DeleteDocumentCall(doc_id) /\ ret'.val = TRUE)
         => /\ GetDocument(StoreNext, doc_id) = NoDoc
            /\ \A q \in MixedQueries, k \in 1..MaxTopK, f \in MixedFilters :
                 \A out \in Search(StoreNext, q, k, f) :
                   \A i \in 1..Len(out.results) : out.results[i].id # doc_id
            /\ CountDocuments(StoreNext) = CountDocuments(Store) - 1]_vars

\* a chunk whose (doc_hash, username) some entry of the table carries
Known(docs, chunk) ==
  /\ chunk.metadata.doc_hash # ""
  /\ \E i \in 1..Len(docs) :
       /\ docs[i].metadata.doc_hash = chunk.metadata.doc_hash
       /\ docs[i].metadata.username = chunk.metadata.username

SharePair(d, e) ==
  /\ d.metadata.doc_hash # ""
  /\ d.metadata.doc_hash = e.metadata.doc_hash
  /\ d.metadata.username = e.metadata.username

SkipsKnownOnly(batch, fresh, r) ==
  ~r.raised
    => /\ Len(r.s.documents) = Len(documents) + Len(fresh)
       /\ Len(r.ret) = Len(fresh)
       /\ \A i \in 1..Len(documents) : r.s.documents[i] = documents[i]
       /\ \A i \in 1..Len(fresh) :
            LET d == r.s.documents[Len(documents) + i]
            IN /\ d.content = fresh[i].content
               /\ d.metadata.doc_hash = fresh[i].metadata.doc_hash
               /\ d.metadata.username = fresh[i].metadata.username
       /\ Len(fresh) = 0 => CountDocuments(r.s) = CountDocuments(Store)

C6_DimensionEnforced ==
  [][\A batch \in MixedBatches :
       ( /\ AddDocumentsCall(batch, MaxUuid)
         /\ CountDocuments(Store) >= 1 /\ dimension # NoDim
         /\ \E i \in 1..Len(batch) : Len(batch[i].embedding) # dimension )
         => /\ ret'.raised
            /\ documents' = documents /\ id_to_idx' = id_to_idx
            /\ dimension' = dimension /\ index' = index
            /\ GetEmbeddings(StoreNext) = GetEmbeddings(Store)
            /\ chroma' = chroma]_vars

\* the table after a compaction holds exactly the entries of the table
\* before that were not tombstoned, in their order
Conserved(before, after) ==
  /\ after.documents = Live(before.documents)
  /\ CountDocuments(after) = Len(Live(before.documents))

\* C7: compact_index, called by itself or by delete_document after the
\* tombstone is written, leaves exactly the entries that were not
\* tombstoned, each with its id, content and metadata, in their order, and
\* count_documents() is their number
C7_CompactionConserves ==
  /\ Conserved(Store, CompactIndex(Store).s)
  /\ \A i \in 1..Len(id_to_idx) :
       LET doc_id == id_to_idx[i].id
       IN DeleteDocument(Store, doc_id).ret = TRUE
            => Conserved(Tombstoned(Store, doc_id), DeleteDocument(Store, doc_id).s)

\* C7 witness: a delete has compacted a table of one tombstone and two
\* survivors
C7_Witness ==
  /\ op = "delete_document" /\ ret.val = TRUE
  /\ Len(documents) = 2

\* C8: a chunk with a non-zero embedding e added to a collection without
\* documents is, for every top_k >= 1, the first and only result of
\* search(e), with score 1
C8_RoundTrip ==
  [][\A batch \in Batches :
       ( /\ AddDocumentsCall(batch, MaxUuid)
         /\ CountDocuments(Store) = 0 /\ Len(batch) = 1
         /\ ~IsZeroVec(RawVec(batch[1].embedding)) )
         => \A k \in 1..MaxTopK :
              \A out \in Search(StoreNext, batch[1].embedding, k, NoFilter) :
                /\ ~out.raised
                /\ Len(out.results) = 1
                /\ out.results[1].content = batch[1].content
                /\ out.results[1].metadata.username = batch[1].metadata.username
                /\ IsOne(out.results[1].score)]_vars

\* the score the specification gives a document for a query: the dot
\* product of the normalized query with the normalized vector stored for it
SpecScore(content, q) ==
  Similarity(Normalize(RawVec(Embed(content))), Normalize(RawVec(q)))

\* C9: search returns its results in non-increasing score order, each score
\* the dot product of the normalized query with the document's normalized
\* vector; with the three unit vectors stored in order, search([1,0,0], 1)
\* returns the first chunk and search([0.9,0.1,0], 2) the first, then the
\* second
C9_Ranking ==
  [][\A q \in RankQueries, k \in 1..MaxTopK :
       (SearchCall(q, k, NoFilter) /\ ~ret'.raised)
         => LET rs == ret'.val
            IN /\ \A i \in 1..(Len(rs) - 1) : ScoreGeq(rs[i].score, rs[i + 1].score)
               /\ \A i \in 1..Len(rs) :
                    ScoreEq(rs[i].score, SpecScore(rs[i].content, q))
               /\ ( /\ Len(documents) = 3
                    /\ documents[1].content = "x" /\ documents[2].content = "y"
                    /\ documents[3].content = "z" )
                    => /\ (q = <<1, 0, 0>> /\ k = 1)
                            => Len(rs) = 1 /\ rs[1].id = documents[1].id
                       /\ (q = <<9, 1, 0>> /\ k = 2)
                            => /\ Len(rs) = 2
                               /\ rs[1].id = documents[1].id
                               /\ rs[2].id = documents[2].id]_vars

\* a collection without live vectors: no live document and, on Chroma, no
\* item in the collection
ZeroLiveVectors ==
  /\ CountDocuments(Store) = 0
  /\ backend = "chroma" => (~chroma.alive \/ Len(chroma.items) = 0)

\* C10: on a collection without live vectors (never filled, reset, or
\* emptied by deletes) search returns [] and raises nothing, whatever the
\* query and its length
C10_EmptySearch ==
  [][\A q \in MixedQueries, k \in 1..MaxTopK, f \in MixedFilters :
       (SearchCall(q, k, f) /\ ZeroLiveVectors)
         => ~ret'.raised /\ Len(ret'.val) = 0]_vars

\* the hashes and usernames document_exists_by_hash is asked about: stored
\* and never stored ones, "" for no username
AskedHashes == {"", "h1", "h2"}

AskedUsers == Users \cup {""}

\* an entry, live or tombstoned, with the hash and, if one is given, the
\* username
HoldsHash(docs, H, U) ==
  \E i \in 1..Len(docs) :
    docs[i].metadata.doc_hash = H /\ (U = "" \/ docs[i].metadata.username = U)

\* C11: document_exists_by_hash(H, U) is true exactly when an entry of
\* documents, live or tombstoned, has the hash H and, if a username is given,
\* the username U (any tenant counts otherwise); a tombstone written by
\* delete_document still counts; and a chunk (H, B) is stored although
\* another tenant A holds H
C11_ExistsByHash ==
  /\ \A H \in AskedHashes, U \in AskedUsers :
       DocumentExistsByHash(Store, H, U) <=> HoldsHash(documents, H, U)
  /\ \A i \in 1..Len(id_to_idx) :
       LET doc_id == id_to_idx[i].id
           d == GetDocument(Store, doc_id)
       IN (d # NoDoc /\ DeleteDocument(Store, doc_id).ret = TRUE)
            => DocumentExistsByHash(Tombstoned(Store, doc_id),
                                    d.metadata.doc_hash, d.metadata.username)
  /\ \A batch \in Batches :
       ( /\ Len(batch) = 1 /\ batch[1].metadata.doc_hash # ""
         /\ ~HoldsHash(documents, batch[1].metadata.doc_hash,
                       batch[1].metadata.username) )
         => Len(AddDocuments(Store, batch, nextUuid).ret) = 1

\* C11 witness: the same hash is stored under both tenants
C11_Witness ==
  /\ op = "add_documents" /\ ~ret.raised /\ Len(ret.val) = 1
  /\ \E i, j \in 1..Len(documents) :
       /\ documents[i].metadata.doc_hash = "h1"
       /\ documents[j].metadata.doc_hash = "h1"
       /\ documents[i].metadata.username = "A"
       /\ documents[j].metadata.username = "B"

\* ------------------------------------------------------- RAGController
\* the usernames a controller is constructed with: a tenant, or "" for none
ControllerUsers == Users \cup {""}

Unauthorized == "Unauthorized to delete this document"

NotFound == "Document not found"

Deleted == "deleted successfully"

Failed == "Failed to delete document"

\* a controller delete that asks the store without looking at the owner
ControllerDeleteUnchecked(s, username, doc_id) ==
  IF GetDocument(s, doc_id) = NoDoc
    THEN [s |-> s, raised |-> FALSE,
          ret |-> [success |-> FALSE, message |-> NotFound]]
  ELSE LET r == DeleteDocument(s, doc_id)
       IN [s |-> r.s, raised |-> FALSE,
           ret |-> [success |-> r.ret,
                    message |-> IF r.ret THEN Deleted ELSE Failed]]

\* RAGController.delete_document: the document must be found and owned by
\* the controller's username; a document without an owner is refused to a
\* named controller unless its source path names the user (no chunk here
\* carries a source path)
ControllerDeleteDocument(s, username, doc_id) ==
  LET doc == GetDocument(s, doc_id)
      owner_meta == doc.metadata.username
  IN IF doc = NoDoc
       THEN [s |-> s, raised |-> FALSE,
             ret |-> [success |-> FALSE, message |-> NotFound]]
     ELSE IF username # "" /\ owner_meta # "" /\ owner_meta # username
       THEN [s |-> s, raised |-> FALSE,
             ret |-> [success |-> FALSE, message |-> Unauthorized]]
     ELSE IF username # "" /\ owner_meta = ""
       THEN [s |-> s, raised |-> FALSE,
             ret |-> [success |-> FALSE, message |-> Unauthorized]]
     ELSE LET r == DeleteDocument(s, doc_id)
          IN [s |-> r.s, raised |-> FALSE,
              ret |-> [success |-> r.ret,
                       message |-> IF r.ret THEN Deleted ELSE Failed]]

ControllerDeleteDocumentCall(username, doc_id) ==
  /\ Outcome(ControllerDeleteDocument(Store, username, doc_id),
             "controller_delete_document")
  /\ UNCHANGED nextUuid

NoInfo == "no relevant information"

Answer == "answer"

ErrorOccurred == "An error occurred"

\* the filter search_documents builds from the controller's username
TenantFilter(username) ==
  IF username = "" THEN NoFilter ELSE [username |-> username]

\* search_documents: the results of search, [] when search raises
SearchDocuments(s, username, q, k) ==
  {IF out.raised THEN << >> ELSE out.results :
     out \in Search(s, q, k, TenantFilter(username))}

\* a rag_query that asks the provider whatever the search returned
RagQueryAlwaysGenerates(s, username, q, k) ==
  {[docs |-> docs, response |-> Answer, generated |-> TRUE] :
     docs \in SearchDocuments(s, username, q, k)}

\* rag_query: without results the fixed response; otherwise the provider is
\* built and asked, and either step may raise: [docs, response, generated]
RagQuery(s, username, q, k) ==
  UNION {IF Len(docs) = 0
           THEN {[docs |-> docs, response |-> NoInfo, generated |-> FALSE]}
           ELSE {[docs |-> docs, response |-> Answer, generated |-> TRUE],
                 [docs |-> docs, response |-> ErrorOccurred, generated |-> TRUE],
                 [docs |-> docs, response |-> ErrorOccurred, generated |-> FALSE]} :
         docs \in SearchDocuments(s, username, q, k)}

RagQueryCall(username, q, k) ==
  /\ op' = "rag_query"
  /\ \E out \in RagQuery(Store, username, q, k) :
       ret' = [raised |-> FALSE, val |-> out]
  /\ UNCHANGED <<backend, index, documents, id_to_idx, dimension, hasEmb,
                 embeddings, chroma, files, nextUuid, pc, peer, splitter>>

\* SpecController: the store driven through a request's RAGController
NextController ==
  \/ \E batch \in Batches : AddDocumentsCall(batch, MaxUuid)
  \/ \E u \in ControllerUsers, doc_id \in Ids : ControllerDeleteDocumentCall(u, doc_id)
  \/ \E u \in ControllerUsers, q \in Queries, k \in 1..MaxTopK : RagQueryCall(u, q, k)
  \/ NewInstance

SpecController == Init /\ [][NextController]_vars

\* C12: RAGController.delete_document by user A on a live document owned by
\* another non-empty user B returns success False without raising, and the
\* store (documents, id_to_idx, vectors, files) is as before
C12_UnauthorizedDelete ==
  \A u \in Users, doc_id \in Ids :
    LET d == GetDocument(Store, doc_id)
    IN (d # NoDoc /\ d.metadata.username # "" /\ d.metadata.username # u)
         => LET r == ControllerDeleteDocument(Store, u, doc_id)
            IN /\ ~r.raised
               /\ r.ret.success = FALSE
               /\ r.s = Store

\* C12 witness: a delete was refused as unauthorized while the document is
\* still stored
C12_Witness ==
  /\ op = "controller_delete_document"
  /\ ret.val.message = Unauthorized
  /\ CountDocuments(Store) >= 1

\* C13: when the search of a rag_query returns nothing (or raises, which
\* search_documents turns into no results) the answer is the fixed "no
\* relevant information" response and the generation provider is not
\* invoked; the provider is invoked only with the results of a search that
\* returned at least one document
C13_NoGenerationWithoutContext ==
  \A u \in ControllerUsers, q \in Queries, k \in 1..MaxTopK :
    \A out \in RagQuery(Store, u, q, k) :
      /\ out.generated
           => \E sr \in Search(Store, q, k, TenantFilter(u)) :
                ~sr.raised /\ Len(sr.results) >= 1 /\ out.docs = sr.results
      /\ (\A sr \in Search(Store, q, k, TenantFilter(u)) :
            sr.raised \/ Len(sr.results) = 0)
           => out.response = NoInfo /\ ~out.generated

\* C13 witness: a rag_query found nothing for its tenant in a collection
\* that holds documents and answered with the fixed response
C13_Witness ==
  /\ op = "rag_query"
  /\ ret.val.response = NoInfo /\ ~ret.val.generated
  /\ CountDocuments(Store) >= 1

\* a chunk handed to add_documents without an embedding
Unembedded ==
  [content |-> "n", embedding |-> << >>,
   metadata |-> [username |-> "A", doc_hash |-> "", file_name |-> "f", id |-> NoId]]

\* batches of a well-formed chunk and a malformed one, in either order
MalformedBatches ==
  {b \in [1..2 -> ChunksOf({"A"}, {""}, {NoId}, {"x", "w"}) \cup {Unembedded}] : TRUE}

\* a chunk add_documents can store into a collection of dimension dim
WellFormed(chunk, dim) == Len(chunk.embedding) = dim

\* C14: one malformed chunk (no embedding, or an embedding of the wrong
\* length) in a batch does not abort add_documents: the call does not raise,
\* the malformed chunk is skipped, and the valid chunk is stored and its id
\* returned
C14_MalformedChunkSkipped ==
  \A batch \in MalformedBatches :
    ( /\ CountDocuments(Store) >= 1 /\ dimension # NoDim
      /\ \E i, j \in 1..2 :
           /\ i # j
           /\ WellFormed(batch[i], dimension)
           /\ ~WellFormed(batch[j], dimension) )
      => LET r == AddDocuments(Store, batch, nextUuid)
             good == SelectSeq(batch, LAMBDA c : WellFormed(c, dimension))
         IN /\ ~r.raised
            /\ Len(r.ret) = 1
            /\ Len(r.s.documents) = Len(documents) + 1
            /\ r.s.documents[Len(documents) + 1].content = good[1].content

\* the normalized embedding supplied with a stored chunk
SuppliedVector(doc) == Normalize(RawVec(Embed(doc.content)))

\* embeddings position-aligned to documents in a store
Aligned(s) ==
  /\ Len(GetEmbeddings(s)) = Len(s.documents)
  /\ \A i \in 1..Len(s.documents) :
       (~IsDeleted(s.documents[i]) /\ i <= Len(GetEmbeddings(s)))
         => GetEmbeddings(s)[i] = SuppliedVector(s.documents[i])

\* C15: on FAISS and in-memory, after an add_documents, delete_document,
\* delete_documents or compact_index that completed, a new VectorStore on
\* the same persist directory loads the documents, id_to_idx and dimension
\* that are in memory, with embeddings aligned by position to the documents;
\* after reset_collection it loads an empty collection
C15_PersistenceRoundTrip ==
  /\ ( /\ backend # "chroma"
       /\ op \in {"add_documents", "delete_document", "delete_documents",
                  "compact_index"}
       /\ ~ret.raised )
       => LET l == Load(Store)
          IN /\ l.documents = documents
             /\ l.id_to_idx = id_to_idx
             /\ l.dimension = dimension
             /\ Aligned(l)
  /\ (backend # "chroma" /\ op = "reset_collection")
       => LET l == Load(Store)
          IN l.documents = << >> /\ l.id_to_idx = << >> /\ l.dimension = NoDim

\* ------------------------------------------------ requests on shared files
\* Each request constructs its own RAGController and with it its own
\* VectorStore on "./faiss_db"; nothing in VectorStore or RAGController takes
\* a lock, so the steps of two requests interleave wherever two processes on
\* the same persist directory are scheduled. A request's steps are cut at the
\* writes to the persisted files.

\* the one chunk a writer request indexes
WriterBatch ==
  << [content |-> "x", embedding |-> Embed("x"),
      metadata |-> [username |-> "A", doc_hash |-> "", file_name |-> "f",
                    id |-> NoId]] >>

\* the instance of request r, seen with the persist directory as it is now
InstanceOf(r) ==
  IF r = "r1" THEN Store
  ELSE [peer EXCEPT !.backend = backend, !.files = files, !.chroma = chroma]

\* request r's instance becomes s; what s wrote is on the shared files
Install(r, s) ==
  IF r = "r1" THEN Becomes(s) /\ UNCHANGED <<peer, splitter>>
  ELSE /\ peer' = [s EXCEPT !.backend = "in_memory", !.files = NoFiles,
                            !.chroma = NoChroma]
       /\ files' = s.files
       /\ chroma' = s.chroma
       /\ UNCHANGED <<backend, index, documents, id_to_idx, dimension, hasEmb,
                      embeddings, splitter>>

\* positions at which a request is inside a mutating operation
Mutating == {"adding", "tombstoned"}

InProgress == {r \in Requests : pc[r] \in Mutating}

\* RAGController.__init__: the request loads its VectorStore from the files
OpenRequest(r) ==
  /\ pc[r] = "none"
  /\ pc' = [pc EXCEPT ![r] = "open"]
  /\ op' = "init"
  /\ ret' = [raised |-> FALSE, val |-> FALSE]
  /\ Install(r, Load(InstanceOf(r)))
  /\ UNCHANGED nextUuid

\* add_documents is entered: its work up to _save is on the instance only
AddDocumentsEnter(r) ==
  /\ pc[r] = "open"
  /\ Len(InstanceOf(r).documents) < MaxDocs
  /\ nextUuid + Cardinality({q \in Requests : pc[q] = "adding"}) <= MaxUuid
  /\ pc' = [pc EXCEPT ![r] = "adding"]
  /\ op' = "add_documents:enter"
  /\ ret' = [raised |-> FALSE, val |-> FALSE]
  /\ UNCHANGED <<backend, index, documents, id_to_idx, dimension, hasEmb,
                 embeddings, chroma, files, nextUuid, peer, splitter>>

\* add_documents stores the batch and saves; the request ends
AddDocumentsSave(r) ==
  /\ pc[r] = "adding"
  /\ pc' = [pc EXCEPT ![r] = "none"]
  /\ op' = "add_documents"
  /\ LET out == AddDocuments(InstanceOf(r), WriterBatch, nextUuid)
     IN /\ Install(r, out.s)
        /\ ret' = [raised |-> out.raised, val |-> out.ret]
  /\ nextUuid' = nextUuid + UuidsDrawn(InstanceOf(r), WriterBatch, nextUuid)

\* delete_document up to its _save, or its return of False
DeleteDocumentTombstone(r, doc_id) ==
  /\ pc[r] = "open"
  /\ op' = "delete_document:save"
  /\ IF /\ HasKey(InstanceOf(r).id_to_idx, doc_id)
        /\ Get(InstanceOf(r).id_to_idx, doc_id) <= Len(InstanceOf(r).documents)
       THEN /\ pc' = [pc EXCEPT ![r] = "tombstoned"]
            /\ Install(r, Tombstoned(InstanceOf(r), doc_id))
            /\ ret' = [raised |-> FALSE, val |-> TRUE]
       ELSE /\ pc' = [pc EXCEPT ![r] = "none"]
            /\ Install(r, InstanceOf(r))
            /\ ret' = [raised |-> FALSE, val |-> FALSE]
  /\ UNCHANGED nextUuid

\* delete_document's compact_index and return; the request ends
DeleteDocumentCompact(r) ==
  /\ pc[r] = "tombstoned"
  /\ pc' = [pc EXCEPT ![r] = "none"]
  /\ op' = "delete_document"
  /\ Install(r, CompactIndex(InstanceOf(r)).s)
  /\ ret' = [raised |-> FALSE, val |-> TRUE]
  /\ UNCHANGED nextUuid

\* the request serves a search on the instance it loaded, and ends
SearchServe(r, q, k) ==
  /\ pc[r] = "open"
  /\ pc' = [pc EXCEPT ![r] = "none"]
  /\ op' = "search"
  /\ \E out \in Search(InstanceOf(r), q, k, NoFilter) :
       ret' = [raised |-> out.raised, val |-> out.results]
  /\ UNCHANGED <<backend, index, documents, id_to_idx, dimension, hasEmb,
                 embeddings, chroma, files, nextUuid, peer, splitter>>

NextWriters ==
  \/ \E r \in Requests : OpenRequest(r)
  \/ \E r \in Requests : AddDocumentsEnter(r)
  \/ \E r \in Requests : AddDocumentsSave(r)
  \/ \E r \in Requests, doc_id \in Ids : DeleteDocumentTombstone(r, doc_id)
  \/ \E r \in Requests : DeleteDocumentCompact(r)
  \/ \E r \in Requests, q \in Queries, k \in 1..MaxTopK : SearchServe(r, q, k)

InitWriters == InitOn({"faiss", "in_memory"})

SpecWriters == InitWriters /\ [][NextWriters]_vars

\* C16: single-writer discipline: add_documents, delete_document and
\* compact_index on one collection exclude each other, so at most one request
\* is inside a mutating operation on the persist directory at any time
C16_SingleWriter == Cardinality(InProgress) <= 1


\* the table request r holds right after loading its VectorStore
Observed(r) == InstanceOf(r).documents

\* C17: a store loaded to serve a search while a mutation is under way holds
\* the complete pre-mutation or post-mutation collection, never a table with
\* a tombstoned entry that is not yet compacted away
C17_AtomicReaderView ==
  \A r \in Requests :
    pc[r] = "open" =>
      \A i \in 1..Len(Observed(r)) : ~IsDeleted(Observed(r)[i])


\* ------------------------------------------------------------ list_documents
\* SpecList: chunks indexed with and without a username ("" stands for the
\* key index_document leaves out when the controller has none)
ListBatches == BatchesOf(ChunksOf({"A", ""}, {""}, {NoId}, {"x"}))

ListFilters == {NoFilter, [username |-> "A"], [username |-> "None"]}

MaxLimit == 2

Limits == 0..MaxLimit

\* offset is an unvalidated int of the request
Offsets == -1..MaxDocs

\* str(doc['metadata'].get(k)): an absent key reads as None
StrOf(v) == IF v = "" THEN "None" ELSE v

\* str(doc['metadata'].get(k)) != str(v) on no key of the filter; the filter
\* values of ListFilters are strings already
ListMatches(md, f) == \A k \in DOMAIN f : StrOf(md[k]) = f[k]

\* a bound of a Python slice of a list of n elements
SliceBound(i, n) == IF i < 0 THEN (IF i + n < 0 THEN 0 ELSE i + n) ELSE Min(i, n)

\* seq[start:end]
Slice(seq, start, end) ==
  SubSeq(seq, SliceBound(start, Len(seq)) + 1, SliceBound(end, Len(seq)))

\* list_documents: the live documents matching the filter, then the page
ListDocuments(s, limit, offset, f) ==
  LET active_docs == SelectSeq(s.documents,
                        LAMBDA d : ~IsDeleted(d) /\ ListMatches(d.metadata, f))
  IN Slice(active_docs, offset, Min(offset + limit, Len(active_docs)))

ListDocumentsCall(limit, offset, f) ==
  /\ op' = "list_documents"
  /\ ret' = [raised |-> FALSE, val |-> ListDocuments(Store, limit, offset, f)]
  /\ UNCHANGED <<backend, index, documents, id_to_idx, dimension, hasEmb,
                 embeddings, chroma, files, nextUuid, pc, peer, splitter>>

NextList ==
  \/ \E batch \in ListBatches : AddDocumentsCall(batch, MaxUuid)
  \/ \E limit \in Limits, offset \in Offsets, f \in ListFilters :
       ListDocumentsCall(limit, offset, f)
  \/ \E doc_id \in Ids : DeleteDocumentCall(doc_id)
  \/ NewInstance

SpecList == Init /\ [][NextList]_vars

\* positions [offset, offset + limit) of seq, counted from 0
Page(seq, offset, limit) ==
  LET first == IF offset < 0 THEN 0 ELSE offset
      last == Min(offset + limit, Len(seq))
  IN SubSeq(seq, first + 1, last)

\* C18: list_documents(limit, offset, filter) returns the live documents whose
\* metadata equals the filter on every supplied key, in insertion order,
\* restricted to positions [offset, offset + limit) of that sequence
C18_ListPage ==
  \A limit \in Limits, offset \in Offsets, f \in ListFilters :
    ListDocuments(Store, limit, offset, f)
      = Page(LiveMatching(documents, f), offset, limit)


\* the vectors of the index, or of self.embeddings where there is no index
IndexVectors(s) ==
  IF s.backend = "faiss" THEN (IF s.index.built THEN s.index.vecs ELSE << >>)
  ELSE GetEmbeddings(s)

\* vecs holds, position by position, the normalized embedding supplied with
\* the document at that position
Owns(docs, vecs) ==
  /\ Len(vecs) = Len(docs)
  /\ \A i \in 1..Len(docs) :
       ~IsDeleted(docs[i]) => vecs[i] = SuppliedVector(docs[i])

\* C19: on the FAISS and in-memory backends, after any sequence of
\* add_documents, delete_document, delete_documents, compact_index and
\* reset_collection, embeddings and the index hold at every position i the
\* normalized embedding supplied with documents[i]; len(embeddings) ==
\* len(documents)
C19_EmbeddingsAligned ==
  /\ Owns(documents, GetEmbeddings(Store))
  /\ Owns(documents, IndexVectors(Store))


\* the ids of the entries of docs that are not marked deleted
LiveIds(docs) == {docs[i].id : i \in {j \in 1..Len(docs) : ~IsDeleted(docs[j])}}

\* the keys of the mapping m
Keys(m) == {m[i].id : i \in 1..Len(m)}

\* C20: after every public operation the keys of id_to_idx are exactly the
\* ids of the entries of documents that are not marked deleted, and each
\* id_to_idx[id] is a valid position p with documents[p].id == id
C20_IdToIdxExact ==
  /\ Keys(id_to_idx) = LiveIds(documents)
  /\ \A id \in Keys(id_to_idx) :
       /\ Get(id_to_idx, id) \in 1..Len(documents)
       /\ documents[Get(id_to_idx, id)].id = id


C20_Witness ==
  /\ op = "delete_document"
  /\ ret.val = TRUE
  /\ Len(documents) = 2
  /\ Len(id_to_idx) >= 1
  /\ \E i \in 1..Len(documents) : documents[i].id = 100


\* the number of vectors the index backend holds: index.ntotal, the items of
\* the Chroma collection, or the rows of self.embeddings
BackendCount(s) ==
  IF s.backend = "chroma"
    THEN (IF s.chroma.alive THEN Len(s.chroma.items) ELSE 0)
    ELSE Len(IndexVectors(s))

\* the operation just finished ran a compaction to its end
Compacted ==
  \/ op = "delete_document" /\ ret.val = TRUE
  \/ op = "delete_documents"
  \/ op = "compact_index" /\ ~ret.raised

\* C21: compaction runs inside every delete: whenever delete_document returns
\* True, delete_documents returns or compact_index completes, documents holds
\* no tombstone and len(documents) == number of vectors of the index backend
\* == |id_to_idx|
C21_CompactedAfterDelete ==
  Compacted =>
    /\ \A i \in 1..Len(documents) : ~IsDeleted(documents[i])
    /\ Len(documents) = BackendCount(Store)
    /\ Len(documents) = Len(id_to_idx)


\* documents, id_to_idx, dimension, embeddings and the index of s are those
\* of t
SameMemory(s, t) ==
  /\ s.documents = t.documents
  /\ s.id_to_idx = t.id_to_idx
  /\ s.dimension = t.dimension
  /\ GetEmbeddings(s) = GetEmbeddings(t)
  /\ s.index = t.index

\* the call with outcome r left the instance as it was if it failed
FailsAtomically(r, failed) == failed => SameMemory(r.s, Store)

\* C22: a mutation call (add_documents, delete_document, delete_documents,
\* compact_index) that raises or reports failure leaves documents, id_to_idx,
\* dimension, embeddings and the index exactly as they were before the call
C22_AtomicFailure ==
  /\ \A batch \in MixedBatches :
       (Len(documents) + Len(batch) <= MaxDocs
          /\ nextUuid + UuidsDrawn(Store, batch, nextUuid) <= MaxUuid + 1)
       => FailsAtomically(AddDocuments(Store, batch, nextUuid),
                          AddDocuments(Store, batch, nextUuid).raised)
  /\ \A doc_id \in Ids :
       FailsAtomically(DeleteDocument(Store, doc_id),
                       DeleteDocument(Store, doc_id).ret = FALSE)
  /\ FailsAtomically(CompactIndex(Store), CompactIndex(Store).raised)


\* C23: every entry of documents has a unique id, whether the ids were
\* generated or supplied by the caller in metadata['id']
C23_UniqueIds ==
  \A i, j \in 1..Len(documents) : i # j => documents[i].id # documents[j].id


\* ------------------------------------------------------------ ingestion paths
\* a loaded document: its doc_hash and its content, short enough for the
\* splitter to give one chunk
IngestDocs == [doc_hash : {"h1", "h2"}, content : {"x"}]

IngestDirs == {<<d>> : d \in IngestDocs} \cup {<<d, e>> : d, e \in IngestDocs}

\* chunk_dicts of index_document for the one chunk of doc
ChunkDicts(username, doc) ==
  << [content |-> doc.content, embedding |-> Embed(doc.content),
      metadata |-> [username |-> username, doc_hash |-> doc.doc_hash,
                    file_name |-> "f", id |-> NoId]] >>

\* validate_document: the sample is embedded first, then the dimension is
\* compared, and only then the duplicate is looked up; calls counts the calls
\* of the embedding provider
ValidateDocument(s, username, doc) ==
  IF s.dimension # NoDim /\ Len(Embed(doc.content)) # s.dimension
    THEN [success |-> FALSE, skipped_duplicate |-> FALSE, calls |-> 1]
  ELSE IF doc.doc_hash # "" /\ DocumentExistsByHash(s, doc.doc_hash, username)
    THEN [success |-> TRUE, skipped_duplicate |-> TRUE, calls |-> 1]
  ELSE [success |-> TRUE, skipped_duplicate |-> FALSE, calls |-> 1]

\* the result of index_document once add_documents has given out, after
\* calls calls of the embedding provider
Indexed(out, calls) ==
  [s |-> out.s, raised |-> FALSE, ret |-> [calls |-> calls, ids |-> out.ret]]

\* index_document: [s, raised, ret |-> [calls, ids]]; an exception of
\* add_documents is caught and reported
IndexDocument(s, username, doc, uuid) ==
  IF doc.doc_hash # "" /\ DocumentExistsByHash(s, doc.doc_hash, username)
    THEN [s |-> s, raised |-> FALSE, ret |-> [calls |-> 0, ids |-> << >>]]
  ELSE Indexed(AddDocuments(s, ChunkDicts(username, doc), uuid),
               Len(ChunkDicts(username, doc)))

\* the provider calls of the validation are added to those of r
After(v, r) == [r EXCEPT !.ret.calls = @ + v.calls]

Skipped(s, v) ==
  [s |-> s, raised |-> FALSE, ret |-> [calls |-> v.calls, ids |-> << >>]]

\* POST /upload: validate, then auto-index unless invalid or duplicate
UploadDocument(s, username, doc, uuid) ==
  IF ValidateDocument(s, username, doc).success
       /\ ~ValidateDocument(s, username, doc).skipped_duplicate
    THEN After(ValidateDocument(s, username, doc),
               IndexDocument(s, username, doc, uuid))
    ELSE Skipped(s, ValidateDocument(s, username, doc))

\* POST /index: validate, 400 when invalid, then index_document
IndexRoute(s, username, doc, uuid) ==
  IF ValidateDocument(s, username, doc).success
    THEN After(ValidateDocument(s, username, doc),
               IndexDocument(s, username, doc, uuid))
    ELSE [Skipped(s, ValidateDocument(s, username, doc)) EXCEPT !.raised = TRUE]

NoIngest == [calls |-> 0, ids |-> << >>]

\* the outcome cur of the files before, extended by the validation v and the
\* indexing r of one more file
Filed(cur, v, r) ==
  [s |-> r.s, raised |-> FALSE,
   ret |-> [calls |-> cur.ret.calls + v.calls + r.ret.calls,
            ids |-> cur.ret.ids \o r.ret.ids]]

\* index_directory on one file once validated: looked up, then indexed
DirectoryFile(cur, v, username, doc, uuid) ==
  Filed(cur, v,
        IF v.success
          THEN IndexDocument(cur.s, username, doc, uuid + Len(cur.ret.ids))
          ELSE Skipped(cur.s, [v EXCEPT !.calls = 0]))

\* index_directory on one file: validated first
DirectoryStep(cur, username, doc, uuid) ==
  DirectoryFile(cur, ValidateDocument(cur.s, username, doc), username, doc, uuid)

\* index_directory: the files of the directory one after the other, from file i
RECURSIVE DirectoryFrom(_, _, _, _, _)
DirectoryFrom(cur, username, docs, i, uuid) ==
  IF i > Len(docs) THEN cur
  ELSE DirectoryFrom(DirectoryStep(cur, username, docs[i], uuid),
                     username, docs, i + 1, uuid)

IndexDirectory(s, username, docs, uuid) ==
  DirectoryFrom([s |-> s, raised |-> FALSE, ret |-> NoIngest],
                username, docs, 1, uuid)

\* the outcome r of an ingestion call, with the uuids it drew
IngestOutcome(r, name) ==
  /\ Outcome(r, name)
  /\ nextUuid' = nextUuid + Len(r.ret.ids)

UploadDocumentCall(username, doc) ==
  /\ Len(documents) < MaxDocs
  /\ nextUuid <= MaxUuid
  /\ IngestOutcome(UploadDocument(Store, username, doc, nextUuid),
                   "upload_document")

IndexRouteCall(username, doc) ==
  /\ Len(documents) < MaxDocs
  /\ nextUuid <= MaxUuid
  /\ IngestOutcome(IndexRoute(Store, username, doc, nextUuid), "index_document")

IndexDirectoryCall(username, docs) ==
  /\ Len(documents) + Len(docs) <= MaxDocs
  /\ nextUuid + Len(docs) <= MaxUuid + 1
  /\ IngestOutcome(IndexDirectory(Store, username, docs, nextUuid),
                   "index_directory")

NextIngest ==
  \/ \E u \in Users, doc \in IngestDocs : UploadDocumentCall(u, doc)
  \/ \E u \in Users, doc \in IngestDocs : IndexRouteCall(u, doc)
  \/ \E u \in Users, docs \in IngestDirs : IndexDirectoryCall(u, docs)
  \/ \E doc_id \in Ids : DeleteDocumentCall(doc_id)
  \/ NewInstance

SpecIngest == Init /\ [][NextIngest]_vars

\* the ingestion of a duplicate called no embedding and left the store alone
NoWork(r) == r.ret.calls = 0 /\ r.s = Store

\* C24: duplicate detection precedes embedding on every ingestion path
\* (upload with auto-index, index, index-directory): for a document whose
\* (doc_hash, username) is already in the store the embedding provider is
\* never called and the index backend is not mutated
C24_DuplicateBeforeEmbedding ==
  \A u \in Users, doc \in IngestDocs :
    DocumentExistsByHash(Store, doc.doc_hash, u) =>
      /\ NoWork(UploadDocument(Store, u, doc, nextUuid))
      /\ NoWork(IndexRoute(Store, u, doc, nextUuid))
      /\ NoWork(IndexDirectory(Store, u, <<doc>>, nextUuid))


\* the position of the live document id in documents
PositionOf(id) == Get(id_to_idx, id)

\* rs ranks documents of equal score by insertion order, and every live
\* document rs leaves out although it scores like the last one returned was
\* inserted after it
TiesByInsertion(rs, q) ==
  /\ \A i \in 1..(Len(rs) - 1) :
       ScoreEq(rs[i].score, rs[i + 1].score)
         => PositionOf(rs[i].id) < PositionOf(rs[i + 1].id)
  /\ \A j \in 1..Len(documents) :
       ( /\ Len(rs) >= 1
         /\ ~IsDeleted(documents[j])
         /\ \A i \in 1..Len(rs) : rs[i].id # documents[j].id
         /\ ScoreEq(SpecScore(documents[j].content, q), rs[Len(rs)].score) )
         => PositionOf(rs[Len(rs)].id) < j

\* C25: tie-breaking in search: live documents with the same similarity score
\* are ranked by insertion order, the earlier-inserted first, and when topK
\* cuts through a group of tied documents the earlier-inserted are returned
C25_TieBreakByInsertion ==
  \A q \in RankQueries, k \in 1..MaxTopK :
    \A out \in Search(Store, q, k, NoFilter) :
      ~out.raised => TiesByInsertion(out.results, q)


\* SpecTenants: two tenants whose documents score differently for the query
TenantBatches == BatchesOf(ChunksOf(Users, {""}, {NoId}, {"x", "y"}))

TenantQueries == {<<1, 0, 0>>}

TenantFilters == {[username |-> "A"], [username |-> "B"]}

NextTenants ==
  \/ \E batch \in TenantBatches : AddDocumentsCall(batch, MaxUuid)
  \/ \E q \in TenantQueries, k \in 1..MaxTopK, f \in TenantFilters :
       SearchCall(q, k, f)
  \/ \E doc_id \in Ids : DeleteDocumentCall(doc_id)
  \/ NewInstance

SpecTenants == InitRank /\ [][NextTenants]_vars


\* the m live documents matching f (m = Len of this sequence)
Matching(f) == LiveMatching(documents, f)

\* rs holds the min(top_k, m) best of the live documents that match f
CompleteUpToK(rs, q, top_k, f) ==
  /\ Len(rs) = Min(top_k, Len(Matching(f)))
  /\ \A i \in 1..Len(rs) :
       ~IsDeleted(documents[PositionOf(rs[i].id)])
         /\ Matches(rs[i].metadata, f)
  /\ \A j \in 1..Len(Matching(f)) :
       (\A i \in 1..Len(rs) : rs[i].id # Matching(f)[j].id)
         => \A i \in 1..Len(rs) :
              ScoreGeq(rs[i].score, SpecScore(Matching(f)[j].content, q))

\* C26: filtered search is complete up to topK: search(query, topK, filter)
\* returns the min(topK, m) highest-scoring of the m live documents matching
\* the filter, never fewer because documents of other tenants scored higher
C26_FilteredSearchComplete ==
  \A q \in TenantQueries, k \in 1..MaxTopK, f \in TenantFilters :
    \A out \in Search(Store, q, k, f) :
      ~out.raised => CompleteUpToK(out.results, q, k, f)


\* the ids of the documents in the persisted snapshot
PersistedIds(f) == {f.data.documents[i].id : i \in 1..Len(f.data.documents)}

\* C27: no lost update across store instances: when two VectorStore instances
\* opened on the same persist directory each complete an add_documents call,
\* the persisted snapshot holds the documents of both; a completed add is
\* never overwritten by another instance's later save
C27_NoLostUpdate ==
  [][\A r \in Requests :
       (AddDocumentsSave(r) /\ ~ret'.raised)
         => PersistedIds(files) \subseteq PersistedIds(files')]_vars


\* ------------------------------------------------ delete_documents_by_file
FileNames == {"f"}

\* self.username in md['source']: the source is the path of the file in the
\* owner's upload directory, and of the names of Users only the owner's own
\* occurs in it
InSource(username, md) == md.username = username

\* the fallback loop over the documents as they were when it started
RECURSIVE FallbackLoop(_, _, _, _, _, _)
FallbackLoop(cur, docs, i, username, file_name, count) ==
  IF i > Len(docs) THEN [s |-> cur, count |-> count]
  ELSE IF /\ docs[i].metadata.file_name = file_name
          /\ InSource(username, docs[i].metadata)
    THEN FallbackLoop(DeleteDocument(cur, docs[i].id).s, docs, i + 1,
                      username, file_name, count + 1)
  ELSE FallbackLoop(cur, docs, i + 1, username, file_name, count)

\* delete_documents_by_file: [s, raised, ret |-> [success, deleted_count]]
DeleteDocumentsByFile(s, username, file_name) ==
  IF file_name = ""
    THEN [s |-> s, raised |-> FALSE,
          ret |-> [success |-> FALSE, deleted_count |-> 0]]
  ELSE LET f == IF username # ""
                  THEN [file_name |-> file_name, username |-> username]
                  ELSE [file_name |-> file_name]
           r == DeleteDocuments(s, f)
           fb == IF r.ret = 0 /\ username # ""
                   THEN FallbackLoop(r.s, r.s.documents, 1, username, file_name, 0)
                   ELSE [s |-> r.s, count |-> r.ret]
       IN [s |-> fb.s, raised |-> FALSE,
           ret |-> [success |-> TRUE, deleted_count |-> fb.count]]

DeleteDocumentsByFileCall(username, file_name) ==
  /\ Outcome(DeleteDocumentsByFile(Store, username, file_name),
             "delete_documents_by_file")
  /\ UNCHANGED nextUuid

NextByFile ==
  \/ \E batch \in Batches : AddDocumentsCall(batch, MaxUuid)
  \/ \E u \in ControllerUsers, file_name \in FileNames :
       DeleteDocumentsByFileCall(u, file_name)
  \/ \E doc_id \in Ids : DeleteDocumentCall(doc_id)
  \/ NewInstance

SpecByFile == Init /\ [][NextByFile]_vars

\* every live document of another tenant than username is live in t, with
\* its content
OthersKept(username, t) ==
  \A i \in 1..Len(documents) :
    (~IsDeleted(documents[i]) /\ documents[i].metadata.username # username)
      => \E j \in 1..Len(t.documents) :
           /\ t.documents[j].id = documents[i].id
           /\ ~IsDeleted(t.documents[j])
           /\ t.documents[j].content = documents[i].content

\* C28: delete_documents_by_file(file_name) called with username A never
\* tombstones or removes a document whose metadata username is another
\* tenant B, neither through delete_documents nor through the fallback
C28_ByFileKeepsOtherTenants ==
  \A u \in Users, file_name \in FileNames :
    OthersKept(u, DeleteDocumentsByFile(Store, u, file_name).s)


\* ---------------------------------------------------------------------
\* TextSplitter.split_text (src/DEPI-PROJECT/stores/rag/TextSplitter.py)
\* A text is a sequence of characters; positions are Python's (0-based,
\* text[i] is the sequence's element i + 1).

MaxText == 4
MaxChunkSize == 3

Chars == {"a", " ", "."}

RECURSIVE Texts(_)
Texts(n) ==
  IF n = 0 THEN {<< >>}
  ELSE Texts(n - 1) \cup
       {Append(t, c) : t \in {u \in Texts(n - 1) : Len(u) = n - 1}, c \in Chars}

\* the configurations with 0 <= chunk_overlap < chunk_size
SplitterConfigs ==
  {cfg \in [chunk_size : 1..MaxChunkSize, chunk_overlap : 0..(MaxChunkSize - 1)] :
     cfg.chunk_overlap < cfg.chunk_size}

\* re.sub(r'\s+', ' ', text): a run of whitespace becomes one space
Collapse(t) ==
  LET F[i \in 0..Len(t)] ==
        IF i = 0 THEN << >>
        ELSE IF t[i] # " " \/ i = 1 \/ t[i - 1] # " "
             THEN Append(F[i - 1], t[i]) ELSE F[i - 1]
  IN F[Len(t)]

\* str.strip(): leading and trailing whitespace removed
Strip(t) ==
  LET solid == {i \in 1..Len(t) : t[i] # " "}
  IN IF solid = {} THEN << >>
     ELSE SubSeq(t, CHOOSE i \in solid : \A j \in solid : i <= j,
                    CHOOSE i \in solid : \A j \in solid : i >= j)

\* re.sub(r'\s+', ' ', text).strip()
NormalizeWhitespace(t) == Strip(Collapse(t))

\* text.rfind(sub, start, end): the highest position of sub within
\* text[start:end], -1 when there is none
RFind(t, sub, start, end) ==
  LET stop == Min(end, Len(t))
      at == {i \in start..(stop - Len(sub)) : SubSeq(t, i + 1, i + Len(sub)) = sub}
  IN IF at = {} THEN 0 - 1 ELSE CHOOSE i \in at : \A j \in at : i >= j

Max3(a, b, c) ==
  IF a >= b /\ a >= c THEN a ELSE IF b >= c THEN b ELSE c

\* text[start:end]
TextSlice(t, start, end) == SubSeq(t, start + 1, Min(end, Len(t)))

\* the end position one loop iteration settles on
ChunkEnd(t, start, chunk_size) ==
  LET end == start + chunk_size
      sentence_end == Max3(RFind(t, <<".", " ">>, start, end),
                           RFind(t, <<"!", " ">>, start, end),
                           RFind(t, <<"?", " ">>, start, end))
      space_pos == RFind(t, <<" ">>, start, end)
  IN IF end < Len(t)
     THEN IF sentence_end # 0 - 1 /\ sentence_end > start THEN sentence_end + 1
          ELSE IF space_pos # 0 - 1 /\ space_pos > start THEN space_pos
          ELSE end
     ELSE end

\* one iteration of the while loop; chunks is kept by its last element
SplitStep(sp) ==
  LET end == ChunkEnd(sp.text, sp.start, sp.chunk_size)
      chunk_text == Strip(TextSlice(sp.text, sp.start, end))
      next == IF end < Len(sp.text) THEN end - sp.chunk_overlap ELSE end
  IN [sp EXCEPT !.chunk = IF chunk_text # << >> THEN chunk_text ELSE @,
                !.start = IF next <= 0 THEN 1 ELSE next]

Splits(sp) ==
  /\ op' = "split_text"
  /\ splitter' = sp
  /\ UNCHANGED <<backend, index, documents, id_to_idx, dimension, hasEmb,
                 embeddings, chroma, files, nextUuid, ret, pc, peer>>

\* the call up to the loop: an empty text returns [] at once
SplitTextCall(text, cfg) ==
  /\ splitter.returned
  /\ Splits([text |-> IF text = << >> THEN << >> ELSE NormalizeWhitespace(text),
             chunk_size |-> cfg.chunk_size, chunk_overlap |-> cfg.chunk_overlap,
             start |-> 0, chunk |-> << >>, returned |-> text = << >>])

Looping == ~splitter.returned /\ splitter.start < Len(splitter.text)

SplitIteration ==
  /\ Looping
  /\ Splits(SplitStep(splitter))

SplitReturn ==
  /\ ~splitter.returned
  /\ ~(splitter.start < Len(splitter.text))
  /\ Splits([splitter EXCEPT !.returned = TRUE])

InitSplit == InitOn({"in_memory"})

NextSplit ==
  \/ \E text \in Texts(MaxText), cfg \in SplitterConfigs : SplitTextCall(text, cfg)
  \/ SplitIteration
  \/ SplitReturn

\* the loop runs on its own once the call is made
SpecSplit ==
  InitSplit /\ [][NextSplit]_vars /\ WF_vars(SplitIteration) /\ WF_vars(SplitReturn)

\* C29: split_text terminates for every text and every configuration with
\* 0 <= chunk_overlap < chunk_size: each loop iteration leaves the start
\* position strictly greater than it found it.
C29_StartStrictlyIncreases ==
  Looping => SplitStep(splitter).start > splitter.start


\* ---------------------------------------------------------------------
\* RAGController.list_documents: the listing a tenant is given

\* RAGController(username).list_documents(limit, offset); username "" is a
\* controller without one, whose filter_metadata is None
ControllerListDocuments(s, username, limit, offset) ==
  LET filter_metadata == IF username # "" THEN [username |-> username]
                         ELSE NoFilter
  IN [success |-> TRUE,
      documents |-> ListDocuments(s, limit, offset, filter_metadata),
      total_count |-> CountDocuments(s),
      limit |-> limit,
      offset |-> offset]

ControllerListDocumentsCall(username, limit, offset) ==
  /\ op' = "rag_list_documents"
  /\ ret' = [raised |-> FALSE,
             val |-> ControllerListDocuments(Store, username, limit, offset)]
  /\ UNCHANGED <<backend, index, documents, id_to_idx, dimension, hasEmb,
                 embeddings, chroma, files, nextUuid, pc, peer, splitter>>

NextListing ==
  \/ \E batch \in TenantBatches : AddDocumentsCall(batch, MaxUuid)
  \/ \E username \in ControllerUsers, limit \in Limits, offset \in 0..MaxDocs :
       ControllerListDocumentsCall(username, limit, offset)
  \/ \E doc_id \in Ids : DeleteDocumentCall(doc_id)
  \/ NewInstance

SpecListing == InitRank /\ [][NextListing]_vars

\* the store that holds the same documents for username and none of any
\* other tenant
OnlyTenant(s, username) ==
  [s EXCEPT !.documents =
     SelectSeq(s.documents, LAMBDA d : d.metadata.username = username)]

\* C30: the response of RAGController.list_documents for tenant A (documents
\* and total_count) depends only on A's documents: the store and the store
\* that holds A's documents alone yield the same response for A
C30_ListingNoninterference ==
  \A limit \in Limits, offset \in 0..MaxDocs :
    ControllerListDocuments(Store, "A", limit, offset)
      = ControllerListDocuments(OnlyTenant(Store, "A"), "A", limit, offset)

====
